---- MODULE Spec2Model ----
(***************************************************************************)
(* A model of the YTBot scripts: the rendering helpers of video.py, the    *)
(* two playlist builders, the batch script at the bottom of video.py, the  *)
(* make_playlist script and the music-generation bot of mubert_bot.py.     *)
(*                                                                         *)
(* Times are whole seconds.  A file system is a function from the paths    *)
(* that exist to the content stored there.  A clip is a record of the      *)
(* attributes the scripts set and the media library derives from them.     *)
(***************************************************************************)
EXTENDS Integers, Sequences, FiniteSets, TLC

VARIABLES
    prog,      \* which script or entry point this run executes
    pc,        \* position in that script
    fs,        \* the file system: path -> content
    pre,       \* the file system when the current call started
    err,       \* the exception that ended the run, "" while none
    call,      \* the arguments of the call in progress or last made
    ret,       \* the clip the last call rendered or returned
    i,         \* loop index of the builder or the batch script
    temp_video_files,  \* create_playlist_video_with_effect: temp paths so far
    video_clips,       \* builders: per-track video clips so far
    audio_clips,       \* builders: per-track audio clips so far
    loaded,    \* paths opened for reading since the call started
    removed,   \* paths deleted since the call started
    moved,     \* batch script: source paths moved to Usadas, in order
    log,       \* batch script / bot / caller's render: the steps taken, in order
    response   \* bot: the HTTP response of the request in progress

vars == <<prog, pc, fs, pre, err, call, ret, i, temp_video_files,
          video_clips, audio_clips, loaded, removed, moved, log, response>>

----------------------------------------------------------------------------
(* Bounds of the model. *)

\* the target duration_min ranges over 1..MaxDurationMin
MaxDurationMin == 2
\* source media last SrcStep, 2*SrcStep, ..., MaxSrcK*SrcStep seconds
MaxSrcK == 4
SrcStep == 25
\* playlist tracks last 1..MaxTrackDur seconds
MaxTrackDur == 4
\* playlists hold up to MaxTracks images and up to MaxTracks tracks
MaxTracks == 2
\* rows of input.csv
MaxRows == 2
\* requests the bot makes before the model stops following it
MaxRequests == 2

----------------------------------------------------------------------------
(* Values shared by every script. *)

\* Python's None for a clip attribute that has not been set
None == -1

RESOLUTIONS ==
    ("8K" :> <<7680, 4320>>) @@ ("4K" :> <<3840, 2160>>) @@
    ("2K" :> <<2560, 1440>>) @@ ("FullHD" :> <<1920, 1080>>) @@
    ("HD" :> <<1280, 720>>) @@ ("SD" :> <<854, 480>>)

\* resolution names a caller may pass: the table's and one that is not in it
ResolutionNames == DOMAIN RESOLUTIONS \cup {"UHD"}

\* the pixel size of a source image or video before it is resized
SourceSize == <<4096, 4096>>

\* A stored file or an in-memory clip.
\*   kind      "image", "audio", "video", "pdf" or "clip"
\*   size      <<width, height>>
\*   duration  seconds of video, None when unset
\*   aduration seconds of audio attached, None when there is none
\*   amaterial seconds of audio material behind aduration
\*   vfadein, vfadeout, afadein, afadeout
\*             seconds of video / audio fade applied, 0 when none
\*   origin    the files a clip reads its frames and samples from
\*   content   the source files whose picture or sound it carries
Media(kind, size, duration, aduration, amaterial, origin) ==
    [kind |-> kind, size |-> size, duration |-> duration,
     aduration |-> aduration, amaterial |-> amaterial,
     vfadein |-> 0, vfadeout |-> 0, afadein |-> 0, afadeout |-> 0,
     origin |-> origin, content |-> origin]

NoClip == Media("none", <<0, 0>>, None, None, None, {})

ImageFile(p) == Media("image", SourceSize, None, None, None, {p})
AudioFile(p, d) == Media("audio", <<0, 0>>, None, d, d, {p})
VideoFile(p, d) == Media("video", SourceSize, d, None, None, {p})
PdfFile(p) == Media("pdf", <<0, 0>>, None, None, None, {p})

\* the result of a helper: the exception raised ("" when none), the file
\* system it leaves and the clip it made
Result(e, fsys, clip) == [err |-> e, fs |-> fsys, clip |-> clip]

Exists(fsys, path) == path \in DOMAIN fsys

----------------------------------------------------------------------------
(* The helpers of video.py.  Each takes the file system it reads and       *)
(* returns a Result; an exception ends the caller at that point.           *)

SecondsPerMinute == 60
ImageLoopSec == 10

\* a resize that is dropped
resize_keep(clip, resolution) == clip

resize(clip, resolution) == [clip EXCEPT !.size = resolution]

\* mpe.ImageClip(path): opening a missing file raises; an image has no duration
ImageClip(fsys, path) ==
    IF ~Exists(fsys, path) THEN Result("OSError", fsys, NoClip)
    ELSE Result("", fsys, [fsys[path] EXCEPT !.kind = "clip", !.duration = None, !.origin = {path}])

\* mpe.VideoFileClip(path)
VideoFileClip(fsys, path) ==
    IF ~Exists(fsys, path) THEN Result("OSError", fsys, NoClip)
    ELSE Result("", fsys, [fsys[path] EXCEPT !.kind = "clip", !.origin = {path}])

image2clip(fsys, path, resolution) ==
    LET r == ImageClip(fsys, path)
    IN  IF r.err # "" THEN r ELSE Result("", fsys, resize(r.clip, resolution))

video2clip(fsys, path, resolution) ==
    LET r == VideoFileClip(fsys, path)
    IN  IF r.err # "" THEN r ELSE Result("", fsys, resize(r.clip, resolution))

\* mpe.AudioFileClip(path)
AudioFileClip(fsys, path) ==
    IF ~Exists(fsys, path) THEN Result("OSError", fsys, NoClip)
    ELSE Result("", fsys,
                Media("audio", <<0, 0>>, None, fsys[path].aduration,
                      fsys[path].amaterial, {path}))

set_duration(clip, t) == [clip EXCEPT !.duration = t]

\* clip.set_audio(audio): the clip plays the audio, keeping its own duration
set_audio(clip, audio) ==
    [clip EXCEPT !.aduration = audio.aduration,
                 !.amaterial = audio.amaterial,
                 !.afadein = audio.afadein,
                 !.afadeout = audio.afadeout,
                 !.origin = clip.origin \cup audio.origin,
                 !.content = clip.content \cup audio.content]

\* audio_loop(audio, duration=d): int(d / audio.duration) + 1 copies are
\* chained and the chain is cut to d
audio_loop(audio, duration) ==
    LET nloops == (duration \div audio.aduration) + 1
    IN  [audio EXCEPT !.amaterial = nloops * audio.aduration,
                      !.aduration = duration]

\* a loop that leaves the video at its own length
video_loop_keep(video, duration) == video

\* video.loop(duration=d): frame t shows the source at t mod its duration
video_loop(video, duration) == set_duration(video, duration)

audio_fadein(clip, t) == [clip EXCEPT !.afadein = t]
audio_fadeout(clip, t) == [clip EXCEPT !.afadeout = t]
fadein(clip, t) == [clip EXCEPT !.vfadein = t]
fadeout(clip, t) == [clip EXCEPT !.vfadeout = t]

\* only the audio is brought to the target duration
match_audio_only(audio, video, duration) ==
    <<audio_loop(audio, duration), video>>

match_audio_and_video_duration(audio, video, duration) ==
    <<audio_loop(audio, duration), video_loop(video, duration)>>

merge_audio_and_video(audio, video, duration) ==
    LET m == match_audio_and_video_duration(audio, video, duration)
    IN  set_audio(m[2], m[1])

\* CompositeVideoClip([image, video]).set_duration(video.duration): the first
\* layer gives the size
overlay_masked_video_to_static_image(video, image) ==
    [image EXCEPT !.duration = video.duration,
                  !.origin = image.origin \cup video.origin,
                  !.content = image.content \cup video.content]

\* masking and tinting change pixels only
overlay_effect(image_clip, effect_clip) ==
    overlay_masked_video_to_static_image(effect_clip, image_clip)

\* clip.write_videofile(path): needs a duration; the encoder replaces
\* whatever is stored at path
write_videofile(fsys, clip, path) ==
    IF clip.duration = None THEN Result("ValueError", fsys, NoClip)
    ELSE Result("", (path :> [clip EXCEPT !.kind = "video"]) @@ fsys, clip)

add_effect_to_image(fsys, image_path, effect_path, output_path, resolution) ==
    IF resolution \notin DOMAIN RESOLUTIONS THEN Result("KeyError", fsys, NoClip)
    ELSE
    LET image_clip == image2clip(fsys, image_path, RESOLUTIONS[resolution])
        effect_clip == video2clip(fsys, effect_path, RESOLUTIONS[resolution])
    IN  IF image_clip.err # "" THEN image_clip
        ELSE IF effect_clip.err # "" THEN effect_clip
        ELSE write_videofile(fsys,
                 overlay_effect(image_clip.clip, effect_clip.clip), output_path)

add_audio_to_video(fsys, video_path, audio_path, output_path, resolution, duration_min, fadein_sec) ==
    IF resolution \notin DOMAIN RESOLUTIONS THEN Result("KeyError", fsys, NoClip)
    ELSE
    LET duration_sec == duration_min * SecondsPerMinute
        clip == video2clip(fsys, video_path, RESOLUTIONS[resolution])
        audio_clip == AudioFileClip(fsys, audio_path)
    IN  IF clip.err # "" THEN clip
        ELSE IF audio_clip.err # "" THEN audio_clip
        ELSE
        LET merged == merge_audio_and_video(audio_clip.clip, clip.clip,
                                            duration_sec)
            faded == IF fadein_sec > 0 THEN audio_fadein(merged, fadein_sec)
                     ELSE merged
        IN  write_videofile(fsys, faded, output_path)

add_audio_to_image(fsys, image_path, audio_path, output_path, resolution, duration_min) ==
    IF Exists(fsys, output_path)
    THEN Result("FileExistsError", fsys, NoClip)
    ELSE IF resolution \notin DOMAIN RESOLUTIONS
    THEN Result("KeyError", fsys, NoClip)
    ELSE
    LET duration_sec == duration_min * SecondsPerMinute
        clip == image2clip(fsys, image_path, RESOLUTIONS[resolution])
        audio_clip == AudioFileClip(fsys, audio_path)
    IN  IF clip.err # "" THEN clip
        ELSE IF audio_clip.err # "" THEN audio_clip
        ELSE write_videofile(fsys,
                 merge_audio_and_video(audio_clip.clip,
                     set_duration(clip.clip, ImageLoopSec), duration_sec),
                 output_path)

----------------------------------------------------------------------------
(* The render program: one call of a rendering function of video.py, on    *)
(* any file system and with any arguments.                                 *)

FadeinSecDefault == 5

SrcDurs == {k * SrcStep : k \in 1..MaxSrcK}
DurationMins == 1..MaxDurationMin

\* the files of a call: each input is there or not, the output path is free
\* or holds an earlier render
RenderFiles(img, mus, eff, vid, out) ==
    LET all == ("image.jpg" :> ImageFile("image.jpg")) @@
               ("music.wav" :> AudioFile("music.wav", mus)) @@
               ("effect.mp4" :> VideoFile("effect.mp4", eff)) @@
               ("video.mp4" :> VideoFile("video.mp4", vid)) @@
               ("render.mp4" :> VideoFile("render.mp4", SrcStep))
        there == (IF img THEN {"image.jpg"} ELSE {}) \cup
                 (IF mus > 0 THEN {"music.wav"} ELSE {}) \cup
                 (IF eff > 0 THEN {"effect.mp4"} ELSE {}) \cup
                 (IF vid > 0 THEN {"video.mp4"} ELSE {}) \cup
                 (IF out THEN {"render.mp4"} ELSE {})
    IN  [p \in there |-> all[p]]

RenderFileSystems ==
    {RenderFiles(img, mus, eff, vid, out) :
        img \in BOOLEAN, mus \in {0} \cup SrcDurs, eff \in {0} \cup SrcDurs,
        vid \in {0} \cup SrcDurs, out \in BOOLEAN}

NoCall == [op |-> "", resolution |-> "", duration_min |-> 0, output_path |-> ""]

builderVars == <<i, temp_video_files, video_clips, audio_clips, loaded, removed>>
scriptVars == <<moved, log, response>>

InitIdle ==
    /\ err = ""
    /\ ret = NoClip
    /\ i = 0
    /\ temp_video_files = <<>>
    /\ video_clips = <<>>
    /\ audio_clips = <<>>
    /\ loaded = {}
    /\ removed = {}
    /\ moved = <<>>
    /\ log = <<>>
    /\ response = 0

InitRender ==
    /\ prog = "render"
    /\ pc = "start"
    /\ fs \in RenderFileSystems
    /\ pre = fs
    /\ call = NoCall
    /\ InitIdle

\* the caller's side of a rendering call: the call returns or raises
Rendered(op, r, resolution, duration_min, output_path) ==
    /\ pre' = fs
    /\ fs' = r.fs
    /\ err' = r.err
    /\ ret' = r.clip
    /\ pc' = IF r.err = "" THEN "done" ELSE "raised"
    /\ call' = [op |-> op, resolution |-> resolution,
                duration_min |-> duration_min, output_path |-> output_path]
    /\ UNCHANGED <<prog, builderVars, scriptVars>>

AddEffectToImage ==
    /\ prog = "render" /\ pc = "start"
    /\ \E resolution \in ResolutionNames :
         Rendered("add_effect_to_image",
                  add_effect_to_image(fs, "image.jpg", "effect.mp4", "render.mp4", resolution),
                  resolution, 0, "render.mp4")

AddAudioToVideo ==
    /\ prog = "render" /\ pc = "start"
    /\ \E resolution \in ResolutionNames, duration_min \in DurationMins, fadein_sec \in {0, FadeinSecDefault} :
         Rendered("add_audio_to_video",
                  add_audio_to_video(fs, "video.mp4", "music.wav", "render.mp4", resolution, duration_min, fadein_sec),
                  resolution, duration_min, "render.mp4")

AddAudioToImage ==
    /\ prog = "render" /\ pc = "start"
    /\ \E resolution \in ResolutionNames, duration_min \in DurationMins :
         Rendered("add_audio_to_image",
                  add_audio_to_image(fs, "image.jpg", "music.wav", "render.mp4", resolution, duration_min),
                  resolution, duration_min, "render.mp4")


----------------------------------------------------------------------------
(* The playlist builders.  A run is one call of create_playlist_video or   *)
(* of create_playlist_video_with_effect; one step is the length check, one *)
(* iteration of a loop, or the code after the last loop.                   *)

ClipFadeSec == 2
PlaylistFadeSec == 3
EffectSec == 7

ImageNames == <<"a.png", "b.png", "c.png", "d.png">>
TrackNames == <<"a.wav", "b.wav", "c.wav", "d.wav">>
TempNames == <<"tmp1.mp4", "tmp2.mp4", "tmp3.mp4", "tmp4.mp4", "tmp5.mp4">>

Prefix(names, n) == SubSeq(names, 1, n)
Range(f) == {f[x] : x \in DOMAIN f}
Min(a, b) == IF a < b THEN a ELSE b
\* the number of pairs zip(xs, ys) yields
ZipLen(xs, ys) == Min(Len(xs), Len(ys))

\* the resolution names the builders are called with
BuilderResolutions == {"FullHD", "SD", "UHD"}

add_fadein_to_audio(audioclip, fadein_duration) == audio_fadein(audioclip, fadein_duration)
add_fadeout_to_audio(audioclip, fadeout_duration) == audio_fadeout(audioclip, fadeout_duration)
add_fadein_to_video(videoclip, fadein_duration) == fadein(videoclip, fadein_duration)
add_fadeout_to_video(videoclip, fadeout_duration) == fadeout(videoclip, fadeout_duration)

RECURSIVE SumOf(_, _)
SumOf(clips, field) ==
    IF clips = <<>> THEN 0
    ELSE clips[1][field] + SumOf(Tail(clips), field)

AllOf(clips, field) == UNION {clips[k][field] : k \in DOMAIN clips}

\* concatenate_videoclips(clips), method "chain": the clips play one after
\* the other; the caller has checked that clips is not empty
concatenate_videoclips(clips) ==
    [segments |-> clips, asegments |-> <<>>] @@
    [Media("clip", clips[1].size, SumOf(clips, "duration"), None, None, AllOf(clips, "origin"))
        EXCEPT !.content = AllOf(clips, "content")]

concatenate_audioclips(clips) ==
    [segments |-> <<>>, asegments |-> clips] @@
    [Media("audio", <<0, 0>>, None, SumOf(clips, "aduration"), SumOf(clips, "amaterial"), AllOf(clips, "origin"))
        EXCEPT !.content = AllOf(clips, "content")]

\* video.py 285-289: the audio fades of track i in create_playlist_video
playlist_audio_fades(audio_clip, idx, image_files) ==
    LET a1 == IF idx # 0 THEN add_fadein_to_audio(audio_clip, ClipFadeSec) ELSE audio_clip
    IN  IF idx # Len(image_files) THEN add_fadeout_to_audio(a1, ClipFadeSec) ELSE a1

\* video.py 359-363: the same in create_playlist_video_with_effect
effect_audio_fades(audio_clip, idx, image_files) ==
    LET a1 == IF idx # 0 THEN add_fadein_to_audio(audio_clip, ClipFadeSec) ELSE audio_clip
    IN  IF idx # Len(image_files) - 1 THEN add_fadeout_to_audio(a1, ClipFadeSec) ELSE a1

\* video.py 295-305 and 369-379: concatenate, fade the whole, attach the audio
playlist_final(vclips, aclips) ==
    LET final_video == add_fadeout_to_video(add_fadein_to_video(concatenate_videoclips(vclips), PlaylistFadeSec), PlaylistFadeSec)
        final_audio == add_fadeout_to_audio(add_fadein_to_audio(concatenate_audioclips(aclips), PlaylistFadeSec), PlaylistFadeSec)
    IN  [set_audio(final_video, final_audio) EXCEPT !.asegments = final_audio.asegments]

\* a length check that lets every pair of lists through
counts_match_skipped(image_files, music_files) == TRUE

\* the length check both builders start with
counts_match(image_files, music_files) == Len(image_files) = Len(music_files)

\* the files of a builder call: the images and the effect video are there,
\* track k lasts durs[k] seconds and is missing when durs[k] = 0
PlaylistFiles(image_files, music_files, durs) ==
    LET there == Range(image_files) \cup {"effect.mp4"} \cup
                 {music_files[k] : k \in {x \in DOMAIN music_files : durs[x] > 0}}
    IN  [p \in there |->
            IF p \in Range(image_files) THEN ImageFile(p)
            ELSE IF p = "effect.mp4" THEN VideoFile(p, EffectSec)
            ELSE AudioFile(p, durs[CHOOSE k \in DOMAIN music_files : music_files[k] = p])]

InitBuilder(name) ==
    /\ prog = name
    /\ pc = "check"
    /\ \E n \in 0..MaxTracks, m \in 0..MaxTracks :
       \E durs \in [1..m -> 0..MaxTrackDur], resolution \in BuilderResolutions,
          effect_kw \in (IF name = "playlist" THEN {FALSE} ELSE BOOLEAN) :
         /\ call = [op |-> name, image_files |-> Prefix(ImageNames, n),
                    music_files |-> Prefix(TrackNames, m),
                    resolution |-> resolution, effect_kw |-> effect_kw]
         /\ fs = PlaylistFiles(Prefix(ImageNames, n), Prefix(TrackNames, m), durs)
    /\ pre = fs
    /\ InitIdle

InitPlaylist == InitBuilder("playlist")
InitPlaylistEffect == InitBuilder("playlist_effect")

Raise(e) ==
    /\ pc' = "raised"
    /\ err' = e

\* video.py 268-270 and 323-325
CheckCounts ==
    /\ prog \in {"playlist", "playlist_effect"} /\ pc = "check"
    /\ IF counts_match(call.image_files, call.music_files)
       THEN pc' = (IF prog = "playlist" THEN "loop" ELSE "step1") /\ err' = err
       ELSE Raise("ValueError")
    /\ UNCHANGED <<prog, fs, pre, call, ret, builderVars, scriptVars>>

\* video.py 275-292: one iteration of create_playlist_video's loop
PlaylistTrack ==
    /\ prog = "playlist" /\ pc = "loop" /\ i < ZipLen(call.image_files, call.music_files)
    /\ LET music_file == call.music_files[i + 1]
           image_file == call.image_files[i + 1]
           audio == AudioFileClip(fs, music_file)
           image == image2clip(fs, image_file, RESOLUTIONS[call.resolution])
           image_clip == add_fadeout_to_video(add_fadein_to_video(
                             set_duration(image.clip, audio.clip.aduration), ClipFadeSec), ClipFadeSec)
           audio_clip == playlist_audio_fades(audio.clip, i, call.image_files)
       IN  IF audio.err # ""
           THEN Raise(audio.err) /\ UNCHANGED <<i, video_clips, audio_clips, loaded>>
           ELSE IF call.resolution \notin DOMAIN RESOLUTIONS
           THEN /\ Raise("KeyError")
                /\ loaded' = loaded \cup {music_file}
                /\ UNCHANGED <<i, video_clips, audio_clips>>
           ELSE IF image.err # ""
           THEN /\ Raise(image.err)
                /\ loaded' = loaded \cup {music_file}
                /\ UNCHANGED <<i, video_clips, audio_clips>>
           ELSE /\ video_clips' = Append(video_clips, image_clip)
                /\ audio_clips' = Append(audio_clips, audio_clip)
                /\ loaded' = loaded \cup {music_file, image_file}
                /\ i' = i + 1
                /\ UNCHANGED <<pc, err>>
    /\ UNCHANGED <<prog, fs, pre, call, ret, temp_video_files, removed, scriptVars>>

\* video.py 294-307: concatenating no clips raises in the library
PlaylistReturn ==
    /\ prog = "playlist" /\ pc = "loop" /\ i = ZipLen(call.image_files, call.music_files)
    /\ IF video_clips = <<>>
       THEN Raise("ValueError") /\ ret' = ret
       ELSE /\ ret' = playlist_final(video_clips, audio_clips)
            /\ pc' = "returned"
            /\ err' = err
    /\ UNCHANGED <<prog, fs, pre, call, builderVars, scriptVars>>


\* tempfile.mktemp(suffix=".mp4"): some name that no file has now
mktemp(fsys) == Range(TempNames) \ DOMAIN fsys

\* os.remove(path) for each path in turn; removing a missing file raises
RECURSIVE remove_all(_, _, _)
remove_all(fsys, paths, done) ==
    IF paths = <<>> THEN [err |-> "", fs |-> fsys, removed |-> done]
    ELSE IF ~Exists(fsys, paths[1])
    THEN [err |-> "FileNotFoundError", fs |-> fsys, removed |-> done]
    ELSE remove_all([p \in DOMAIN fsys \ {paths[1]} |-> fsys[p]], Tail(paths), done \cup {paths[1]})

\* a cleanup that misses the first temporary file
cleanup_skip_first(fsys, temp_files) == remove_all(fsys, Tail(temp_files), {})

\* video.py 381-383
cleanup(fsys, temp_files) == remove_all(fsys, temp_files, {})

\* video.py 330-345: one iteration of the first loop
EffectStep1 ==
    /\ prog = "playlist_effect" /\ pc = "step1" /\ i < Len(call.image_files)
    /\ LET image_file == call.image_files[i + 1]
           image == image2clip(fs, image_file, RESOLUTIONS[call.resolution])
           effect == video2clip(fs, "effect.mp4", RESOLUTIONS[call.resolution])
           image_clip == IF call.effect_kw THEN overlay_effect(image.clip, effect.clip)
                         ELSE image.clip
       IN  IF call.resolution \notin DOMAIN RESOLUTIONS
           THEN Raise("KeyError") /\ UNCHANGED <<fs, i, temp_video_files, loaded>>
           ELSE IF image.err # ""
           THEN Raise(image.err) /\ UNCHANGED <<fs, i, temp_video_files, loaded>>
           ELSE IF call.effect_kw /\ effect.err # ""
           THEN /\ Raise(effect.err)
                /\ loaded' = loaded \cup {image_file}
                /\ UNCHANGED <<fs, i, temp_video_files>>
           ELSE \E temp_file \in mktemp(fs) :
                  LET w == write_videofile(fs, image_clip, temp_file)
                  IN  /\ loaded' = loaded \cup {image_file} \cup
                                   (IF call.effect_kw THEN {"effect.mp4"} ELSE {})
                      /\ IF w.err # ""
                         THEN Raise(w.err) /\ UNCHANGED <<fs, i, temp_video_files>>
                         ELSE /\ fs' = w.fs
                              /\ temp_video_files' = Append(temp_video_files, temp_file)
                              /\ i' = i + 1
                              /\ UNCHANGED <<pc, err>>
    /\ UNCHANGED <<prog, pre, call, ret, video_clips, audio_clips, removed, scriptVars>>

\* video.py 347-351: the first loop is over, the second starts
EffectEnterStep2 ==
    /\ prog = "playlist_effect" /\ pc = "step1" /\ i = Len(call.image_files)
    /\ pc' = "step2"
    /\ i' = 0
    /\ UNCHANGED <<prog, fs, pre, err, call, ret, temp_video_files, video_clips,
                   audio_clips, loaded, removed, scriptVars>>

\* video.py 351-366: one iteration of the second loop
EffectStep2 ==
    /\ prog = "playlist_effect" /\ pc = "step2" /\ i < ZipLen(temp_video_files, call.music_files)
    /\ LET temp_video_file == temp_video_files[i + 1]
           music_file == call.music_files[i + 1]
           audio == AudioFileClip(fs, music_file)
           video == VideoFileClip(fs, temp_video_file)
           video_clip == add_fadeout_to_video(add_fadein_to_video(
                             video_loop(video.clip, audio.clip.aduration), ClipFadeSec), ClipFadeSec)
           audio_clip == effect_audio_fades(audio.clip, i, call.image_files)
       IN  IF audio.err # ""
           THEN Raise(audio.err) /\ UNCHANGED <<i, video_clips, audio_clips, loaded>>
           ELSE IF video.err # ""
           THEN /\ Raise(video.err)
                /\ loaded' = loaded \cup {music_file}
                /\ UNCHANGED <<i, video_clips, audio_clips>>
           ELSE /\ video_clips' = Append(video_clips, video_clip)
                /\ audio_clips' = Append(audio_clips, audio_clip)
                /\ loaded' = loaded \cup {music_file, temp_video_file}
                /\ i' = i + 1
                /\ UNCHANGED <<pc, err>>
    /\ UNCHANGED <<prog, fs, pre, call, ret, temp_video_files, removed, scriptVars>>

\* video.py 368-385: concatenate, fade, delete the temporary files, return
EffectReturn ==
    /\ prog = "playlist_effect" /\ pc = "step2" /\ i = ZipLen(temp_video_files, call.music_files)
    /\ IF video_clips = <<>>
       THEN Raise("ValueError") /\ UNCHANGED <<fs, ret, removed>>
       ELSE LET c == cleanup(fs, temp_video_files)
            IN  /\ fs' = c.fs
                /\ removed' = c.removed
                /\ IF c.err # ""
                   THEN Raise(c.err) /\ ret' = ret
                   ELSE /\ ret' = playlist_final(video_clips, audio_clips)
                        /\ pc' = "returned"
                        /\ err' = err
    /\ UNCHANGED <<prog, pre, call, i, temp_video_files, video_clips, audio_clips,
                   loaded, scriptVars>>


\* the files a clip reads from that are no longer there
missing_files(fsys, clip) == clip.origin \ DOMAIN fsys

\* make_playlist.py 22-26: the caller renders the clip the builder returned
\* (the call it makes passes "FullHD" and an effect).  The clip's readers
\* open their files by name: with a file gone the render either raises or
\* goes on with the frames a reader still holds.
MakePlaylistRender ==
    /\ prog = "playlist_effect" /\ pc = "returned"
    /\ call.resolution = "FullHD" /\ call.effect_kw
    /\ LET missing == missing_files(fs, ret)
           w == write_videofile(fs, ret, "test.mp4")
       IN  /\ log' = Append(log, [step |-> "write_videofile", missing |-> missing])
           /\ IF missing = {}
              THEN fs' = w.fs /\ pc' = "rendered" /\ err' = err
              ELSE \/ Raise("OSError") /\ fs' = fs
                   \/ fs' = w.fs /\ pc' = "rendered" /\ err' = err
    /\ UNCHANGED <<prog, pre, call, ret, builderVars, moved, response>>

----------------------------------------------------------------------------
(* The batch script at the bottom of video.py.  A path is                  *)
(* <<directory, stem, extension>>; a file name is <<stem, extension>>.     *)

BatchDurationMin == 80      \* 79.99 in the script, in whole minutes here
BatchFadeinSec == 4

Path(dir, name) == <<dir, name[1], name[2]>>

source_image_path == "images"
source_music_path == "music"
used_image_path == "images/Usadas"
used_music_path == "music/Usadas"
render_path == "renders"
effect_path == "effects"
effect_name == <<"particulas_black_1080", "mp4">>

\* f"tmp_{render_name}"
effect_video_name(render_name) == <<"tmp_" \o render_name[1], render_name[2]>>

\* str(path).replace(".wav", ".pdf")
replace_wav_pdf(path) == IF path[3] = "wav" THEN <<path[1], path[2], "pdf">> ELSE path

\* Path(source).rename(Path(destination) / source.name): a missing source
\* raises, a file already at the destination is replaced
move_file(fsys, source, destination) ==
    IF ~Exists(fsys, source) THEN Result("FileNotFoundError", fsys, NoClip)
    ELSE Result("", (Path(destination, <<source[2], source[3]>>) :> fsys[source]) @@
                    [p \in DOMAIN fsys \ {source} |-> fsys[p]], NoClip)

\* the image moved before the final render is made
row_steps_move_first == <<"effect", "move_image", "render", "move_music", "move_pdf">>

\* video.py 435-458: the steps the loop body takes for one row, in order
row_steps == <<"effect", "render", "move_image", "move_music", "move_pdf">>

\* what the loop body does at `step` for `row`
row_step(fsys, row, step) ==
    CASE step = "effect" ->
           add_effect_to_image(fsys, Path(source_image_path, row.image_name),
               Path(effect_path, effect_name),
               Path(render_path, effect_video_name(row.render_name)), "FullHD")
      [] step = "render" ->
           add_audio_to_video(fsys, Path(render_path, effect_video_name(row.render_name)),
               Path(source_music_path, row.music_name),
               Path(render_path, row.render_name), "FullHD", BatchDurationMin, BatchFadeinSec)
      [] step = "move_image" ->
           move_file(fsys, Path(source_image_path, row.image_name), used_image_path)
      [] step = "move_music" ->
           move_file(fsys, Path(source_music_path, row.music_name), used_music_path)
      [] step = "move_pdf" ->
           move_file(fsys, replace_wav_pdf(Path(source_music_path, row.music_name)), used_music_path)

ImageFileNames == {<<"a", "png">>, <<"b", "png">>}
MusicFileNames == {<<"a", "wav">>, <<"b", "mp3">>}
RenderFileNames == {<<"r1", "mp4">>, <<"r2", "mp4">>}

Rows == [image_name : ImageFileNames, music_name : MusicFileNames, render_name : RenderFileNames]

\* the files the script starts with: the effect, and the images, the music
\* and the license PDFs that are there
BatchFiles(images, music, pdfs) ==
    LET there == {Path(effect_path, effect_name)} \cup
                 {Path(source_music_path, m) : m \in music} \cup
                 {Path(source_image_path, n) : n \in images} \cup
                 {Path(source_music_path, <<m[1], "pdf">>) : m \in pdfs}
    IN  [p \in there |->
            IF p[1] = effect_path THEN VideoFile(p, EffectSec)
            ELSE IF p[1] = source_image_path THEN ImageFile(p)
            ELSE IF p[3] = "pdf" THEN PdfFile(p)
            ELSE AudioFile(p, SrcStep)]

InitBatch ==
    /\ prog = "batch"
    /\ pc = "read"
    /\ \E n \in 0..MaxRows :
       \E rows \in [1..n -> Rows] :
         call = [op |-> "batch", rows |-> rows, step |-> ""]
    /\ \E images \in SUBSET ImageFileNames, music \in SUBSET MusicFileNames,
          pdfs \in SUBSET {m \in MusicFileNames : m[2] = "wav"} :
         fs = BatchFiles(images, music, pdfs)
    /\ pre = fs
    /\ InitIdle

\* video.py 393-396: read input.csv and enter the loop
BatchRead ==
    /\ prog = "batch" /\ pc = "read"
    /\ pc' = IF call.rows = <<>> THEN "done" ELSE row_steps[1]
    /\ UNCHANGED <<prog, fs, pre, err, call, ret, builderVars, scriptVars>>

\* the step that follows `step` in the loop body, "" after the last one
step_after(step) ==
    LET k == CHOOSE x \in DOMAIN row_steps : row_steps[x] = step
    IN  IF k = Len(row_steps) THEN "" ELSE row_steps[k + 1]

\* the loop body at `step` for row i (rows are numbered from 0); `pre` keeps
\* the file system the row started with
BatchDo(step) ==
    /\ prog = "batch" /\ pc = step
    /\ LET r == row_step(fs, call.rows[i + 1], step)
           last == step_after(step) = ""
       IN  /\ call' = [call EXCEPT !.step = step]
           /\ fs' = r.fs
           /\ IF r.err # ""
              THEN Raise(r.err) /\ UNCHANGED <<i, log, moved, pre>>
              ELSE /\ log' = Append(log, [row |-> i, step |-> step])
                   /\ moved' = IF step \in {"move_image", "move_music", "move_pdf"}
                               THEN Append(moved, [row |-> i, step |-> step])
                               ELSE moved
                   /\ i' = IF last THEN i + 1 ELSE i
                   /\ pre' = IF last THEN r.fs ELSE pre
                   /\ pc' = IF ~last THEN step_after(step)
                            ELSE IF i + 1 = Len(call.rows) THEN "done"
                            ELSE row_steps[1]
                   /\ err' = err
    /\ UNCHANGED <<prog, ret, temp_video_files, video_clips, audio_clips, loaded,
                   removed, response>>

\* video.py 435-442
BatchEffect == BatchDo("effect")
\* video.py 444-450
BatchRender == BatchDo("render")
\* video.py 455
BatchMoveImage == BatchDo("move_image")
\* video.py 456
BatchMoveMusic == BatchDo("move_music")
\* video.py 458
BatchMovePdf == BatchDo("move_pdf")

----------------------------------------------------------------------------
(* The music bot of mubert_bot.py: main's loop, followed for MaxRequests   *)
(* requests.                                                               *)

Genres == {"rock", "jazz"}
Moods == {"happy", "calm"}
FileStems == {"x", "y"}
\* the status codes the API answers with
Statuses == {200, 401, 500}

\* mubert_bot.py 58-73 called from 84-88: requests.post raises when the
\* network fails and returns the response, whatever its status, otherwise;
\* generate_music returns response.content
BotRequest ==
    /\ prog = "bot" /\ pc = "input"
    /\ \E genre \in Genres, mood \in Moods :
         /\ call' = [op |-> "generate_music", genre |-> genre, mood |-> mood]
         /\ \/ Raise("ConnectionError") /\ response' = response
            \/ \E status \in Statuses :
                 /\ response' = status
                 /\ pc' = "save"
                 /\ err' = err
    /\ UNCHANGED <<prog, fs, pre, ret, builderVars, moved, log>>

\* mubert_bot.py 75-77 called from 91-93: save_audio_file writes the bytes
BotSave ==
    /\ prog = "bot" /\ pc = "save"
    /\ \E name \in FileStems :
         LET file_path == <<name, "wav">>
         IN  /\ fs' = (file_path :> [kind |-> "bytes", status |-> response,
                                     genre |-> call.genre, mood |-> call.mood]) @@ fs
             /\ log' = Append(log, [step |-> "save", file_path |-> file_path, status |-> response])
    /\ pc' = IF Len(log) + 1 < MaxRequests THEN "input" ELSE "stopped"
    /\ UNCHANGED <<prog, pre, err, call, ret, builderVars, moved, response>>

InitBot ==
    /\ prog = "bot"
    /\ pc = "input"
    /\ fs = [p \in {} |-> NoClip]
    /\ pre = fs
    /\ call = NoCall
    /\ InitIdle

----------------------------------------------------------------------------
Init ==
    \/ InitRender
    \/ InitPlaylist
    \/ InitPlaylistEffect
    \/ InitBatch
    \/ InitBot

Next ==
    \/ AddEffectToImage
    \/ AddAudioToVideo
    \/ AddAudioToImage
    \/ CheckCounts
    \/ PlaylistTrack
    \/ PlaylistReturn
    \/ EffectStep1
    \/ EffectEnterStep2
    \/ EffectStep2
    \/ EffectReturn
    \/ MakePlaylistRender
    \/ BatchRead
    \/ BatchEffect
    \/ BatchRender
    \/ BatchMoveImage
    \/ BatchMoveMusic
    \/ BatchMovePdf
    \/ BotRequest
    \/ BotSave

Spec == Init /\ [][Next]_vars

----------------------------------------------------------------------------
(* Properties. *)

Builders == {"playlist", "playlist_effect"}
Finished == {"done", "returned", "raised", "stopped"}

\* C1: every rendering function (add_audio_to_image, add_audio_to_video,
\* add_effect_to_image) fails when a file already exists at its output path
\* and leaves that file unchanged.
C1_NoOverwrite ==
    (prog = "render" /\ pc \in Finished /\ Exists(pre, call.output_path))
        => (pc = "raised" /\ fs = pre)

\* C2: both playlist builders raise ValueError when the number of images
\* differs from the number of tracks, before any clip is loaded, any
\* temporary file is created or any file is written.
C2_CountMismatchFailsFirst ==
    (prog \in Builders /\ pc # "check" /\ Len(call.image_files) # Len(call.music_files))
        => /\ pc = "raised"
           /\ err = "ValueError"
           /\ loaded = {}
           /\ temp_video_files = <<>>
           /\ video_clips = <<>> /\ audio_clips = <<>>
           /\ fs = pre

C2_Witness ==
    /\ prog = "playlist_effect" /\ pc = "raised" /\ err = "ValueError"
    /\ Len(call.image_files) = 2 /\ Len(call.music_files) = 1

FadesWithin(clip) ==
    /\ 0 <= clip.vfadein /\ 0 <= clip.vfadeout
    /\ 0 <= clip.afadein /\ 0 <= clip.afadeout
    /\ (clip.vfadein > 0 => clip.vfadein <= clip.duration)
    /\ (clip.vfadeout > 0 => clip.vfadeout <= clip.duration)
    /\ (clip.afadein > 0 => clip.afadein <= clip.aduration)
    /\ (clip.afadeout > 0 => clip.afadeout <= clip.aduration)

\* C3: in the playlist builders every fade applied is non-negative and no
\* longer than the clip it is applied to: the per-clip fades against each
\* track's duration, the fades of the whole against the total duration.
C3_FadesWithinClips ==
    prog \in Builders =>
        /\ \A k \in DOMAIN video_clips : FadesWithin(video_clips[k])
        /\ \A k \in DOMAIN audio_clips : FadesWithin(audio_clips[k])
        /\ (pc = "returned" => FadesWithin(ret))

\* C4: the bot never saves a file for a request whose response was not
\* successful: a network failure or a non-2xx response ends the process.
C4_NoSaveAfterFailure ==
    prog = "bot" =>
        /\ \A k \in DOMAIN log : log[k].status \in 200..299
        /\ \A p \in DOMAIN fs : fs[p].status \in 200..299

\* C5: a resolution name maps to exactly its documented pixel dimensions,
\* every rendering function resizes its clip to the dimensions of the name it
\* was given, and a name outside the table makes the function fail before
\* anything is written.
C5_Resolutions ==
    /\ DOMAIN RESOLUTIONS = {"8K", "4K", "2K", "FullHD", "HD", "SD"}
    /\ RESOLUTIONS["8K"] = <<7680, 4320>> /\ RESOLUTIONS["4K"] = <<3840, 2160>>
    /\ RESOLUTIONS["2K"] = <<2560, 1440>> /\ RESOLUTIONS["FullHD"] = <<1920, 1080>>
    /\ RESOLUTIONS["HD"] = <<1280, 720>> /\ RESOLUTIONS["SD"] = <<854, 480>>
    /\ (prog = "render" /\ pc = "done") =>
           /\ ret.size = RESOLUTIONS[call.resolution]
           /\ fs[call.output_path].size = RESOLUTIONS[call.resolution]
    /\ (prog = "render" /\ pc \in Finished /\ call.resolution \notin DOMAIN RESOLUTIONS) =>
           (pc = "raised" /\ fs = pre)
    /\ (prog \in Builders /\ call.resolution \in DOMAIN RESOLUTIONS) =>
           /\ \A k \in DOMAIN video_clips : video_clips[k].size = RESOLUTIONS[call.resolution]
           /\ \A t \in Range(temp_video_files) \cap DOMAIN fs : fs[t].size = RESOLUTIONS[call.resolution]
           /\ (pc = "returned" => ret.size = RESOLUTIONS[call.resolution])
    /\ (prog \in Builders /\ call.resolution \notin DOMAIN RESOLUTIONS) =>
           /\ fs = pre /\ video_clips = <<>> /\ temp_video_files = <<>>
           /\ pc # "returned"

C5_Witness ==
    /\ prog = "render" /\ pc = "done"
    /\ call.op = "add_effect_to_image" /\ call.resolution = "SD"
    /\ fs[call.output_path].size = <<854, 480>>

\* C6: in both builders track i of n gets the 2-second audio fade-in iff
\* i # 0 and the 2-second audio fade-out iff i # n-1.
C6_AudioFadeSchedule ==
    (prog \in Builders /\ pc = "returned") =>
        \A k \in DOMAIN audio_clips :
            /\ audio_clips[k].afadein = (IF k - 1 # 0 THEN ClipFadeSec ELSE 0)
            /\ audio_clips[k].afadeout = (IF k - 1 # Len(call.image_files) - 1 THEN ClipFadeSec ELSE 0)

\* C7: when create_playlist_video_with_effect returns normally, every
\* temporary file it created (one per image) has been deleted, and it has
\* deleted no other file.
C7_TempFilesDeleted ==
    (prog = "playlist_effect" /\ pc = "returned") =>
        /\ Len(temp_video_files) = Len(call.image_files)
        /\ Cardinality(Range(temp_video_files)) = Len(call.image_files)
        /\ Range(temp_video_files) \cap DOMAIN fs = {}
        /\ removed = Range(temp_video_files)
        /\ Range(temp_video_files) \cap DOMAIN pre = {}
        /\ fs = pre

C7_Witness ==
    /\ prog = "playlist_effect" /\ pc = "returned"
    /\ Len(temp_video_files) = 2 /\ Cardinality(removed) = 2

\* the order in which the script handles a row
RowOrder == <<"effect", "render", "move_image", "move_music", "move_pdf">>

StepsOfRow(r) ==
    LET es == SelectSeq(log, LAMBDA e : e.row = r)
    IN  [k \in DOMAIN es |-> es[k].step]

\* within the source directories the file system is as the row found it
SourcesInPlace ==
    \A p \in DOMAIN pre \cup DOMAIN fs :
        p[1] \in {source_image_path, source_music_path} =>
            (p \in DOMAIN pre /\ p \in DOMAIN fs /\ fs[p] = pre[p])

\* C8 as stated: whichever step of a row fails, that row's source files stay
\* in place.
C8_SourcesStayOnAnyFailure ==
    (prog = "batch" /\ pc = "raised") => SourcesInPlace

\* C8 as amended: rows are processed in order; a row's image, music and
\* license PDF are moved, in that order, only after its effect video and then
\* its final render have been written; a failing step stops the process
\* before any later row; the row's source files stay in place when the
\* failing step is one of the two renders, while a failing move leaves the
\* files moved before it in Usadas.
C8_RowsInOrder ==
    prog = "batch" =>
        /\ \A a, b \in DOMAIN log : a < b => log[a].row <= log[b].row
        /\ \A r \in 0..MaxRows :
             /\ Len(StepsOfRow(r)) <= Len(RowOrder)
             /\ StepsOfRow(r) = SubSeq(RowOrder, 1, Len(StepsOfRow(r)))
             /\ (r < i => StepsOfRow(r) = RowOrder)
             /\ (r > i => StepsOfRow(r) = <<>>)
        /\ \A k \in DOMAIN moved :
             LET row == call.rows[moved[k].row + 1]
             IN  /\ Exists(fs, Path(render_path, effect_video_name(row.render_name)))
                 /\ Exists(fs, Path(render_path, row.render_name))
        /\ (pc = "raised" /\ call.step \in {"effect", "render"}) =>
               (SourcesInPlace /\ StepsOfRow(i) = SubSeq(RowOrder, 1, Len(StepsOfRow(i))))
        /\ (pc = "raised" /\ call.step \notin {"effect", "render"}) =>
               LET row == call.rows[i + 1]
               IN  /\ call.step = "move_pdf"
                   /\ StepsOfRow(i) = SubSeq(RowOrder, 1, 4)
                   /\ ~Exists(fs, Path(source_image_path, row.image_name))
                   /\ ~Exists(fs, Path(source_music_path, row.music_name))
                   /\ Exists(fs, Path(used_image_path, row.image_name))
                   /\ Exists(fs, Path(used_music_path, row.music_name))
        /\ (pc = "raised" => ~ENABLED Next)

C8_Witness ==
    /\ prog = "batch" /\ pc = "raised" /\ i = 1
    /\ call.step = "render"
    /\ Len(moved) = 3

RECURSIVE TrackTotal(_, _)
TrackTotal(files, fsys) ==
    IF files = <<>> THEN 0
    ELSE fsys[files[1]].aduration + TrackTotal(Tail(files), fsys)

\* C9: the playlist built from n images and n tracks has n segments in input
\* order, segment i showing image i for exactly the duration of track i while
\* track i plays; video and audio both last the sum of the track durations.
C9_PlaylistSegments ==
    (prog \in Builders /\ pc = "returned") =>
        LET n == Len(call.image_files)
        IN  /\ Len(call.music_files) = n
            /\ Len(ret.segments) = n /\ Len(ret.asegments) = n
            /\ \A k \in 1..n :
                 /\ ret.segments[k].duration = pre[call.music_files[k]].aduration
                 /\ ret.asegments[k].aduration = pre[call.music_files[k]].aduration
                 /\ ret.segments[k].content \cap Range(call.image_files) = {call.image_files[k]}
                 /\ ret.asegments[k].content = {call.music_files[k]}
            /\ ret.duration = TrackTotal(call.music_files, pre)
            /\ ret.aduration = ret.duration

C9_Witness ==
    /\ prog = "playlist_effect" /\ pc = "returned"
    /\ Len(ret.segments) = 2
    /\ ret.segments[1].duration # ret.segments[2].duration
    /\ ret.segments[1].duration # EffectSec

\* C10: for add_audio_to_image and add_audio_to_video the rendered clip's
\* video and audio both last exactly duration_min * 60 seconds whatever the
\* lengths of the sources: shorter sources are looped, longer ones trimmed.
C10_TargetDuration ==
    (prog = "render" /\ pc = "done" /\ call.op \in {"add_audio_to_image", "add_audio_to_video"}) =>
        LET out == fs[call.output_path]
        IN  /\ ret.duration = call.duration_min * 60
            /\ ret.aduration = call.duration_min * 60
            /\ ret.amaterial >= ret.aduration
            /\ out.duration = call.duration_min * 60
            /\ out.aduration = call.duration_min * 60

C10_Witness ==
    /\ prog = "render" /\ pc = "done" /\ call.op = "add_audio_to_video"
    /\ pre["music.wav"].aduration < ret.aduration
    /\ pre["video.mp4"].duration > ret.duration
    /\ ret.duration = 60

\* C11: the temporary files written by create_playlist_video_with_effect are
\* never deleted while a clip that reads from them remains to be rendered:
\* every temp file backing the returned clip exists when the caller renders it.
C11_TempFilesLiveAtRender ==
    prog = "playlist_effect" =>
        /\ \A k \in DOMAIN log : log[k].missing \cap Range(temp_video_files) = {}
        /\ (pc = "rendered" => Range(temp_video_files) \cap ret.origin \subseteq DOMAIN fs)

====
